---- MODULE Spec2Model ----
(***************************************************************************)
(* Model of the JIRA webhook router                                        *)
(* (src/production/webhook-service/app/webhook_router.py) and of the       *)
(* minimal handler (src/webhook_handler.py).                               *)
(*                                                                         *)
(* Strings are sequences of one-character strings, so that the wildcard    *)
(* conversion and the regular-expression match of _match_pattern are       *)
(* computed character by character, as the code computes them.             *)
(***************************************************************************)
EXTENDS Integers, Sequences, FiniteSets, TLC

VARIABLES
    source,           \* the configuration file behind config_path
    envUrl,           \* DEFAULT_AGENTAPI_URL: "unset", "empty" or "set"
    routes,           \* router.routes: the dict, as its entries in insertion order
    catch_all_route,  \* router.catch_all_route: a route or None
    rl,               \* Spec: each POST /config/reload thread's position and locals
    wh,               \* Spec: each POST /jira-webhook thread's position and locals
    stable,           \* Spec (history): the table as the last finished load left it
    tKey,             \* TableSpec: the key of the last lookup
    tResult,          \* TableSpec: the result of the last lookup
    tListing,         \* TableSpec: the body of the last GET /routes
    mPattern,     \* MatchSpec: the pattern handed to _match_pattern
    mKey,         \* MatchSpec: the project key handed to _match_pattern
    mResult,      \* MatchSpec: "pending", or the outcome of _match_pattern
    possessive,   \* whether the interpreter's re module knows possessive
                  \* quantifiers (CPython >= 3.11) or rejects them
    call,         \* ApiSpec: the last request served, with its answer and the
                  \* outbound requests it made
    cEvent,       \* ComposeSpec: the webhookEvent of the payload
    cItems,       \* ComposeSpec: the items of the payload's changelog
    cOut          \* ComposeSpec: Pending, or what the handler computed

mvars == <<mPattern, mKey, mResult>>
table == <<routes, catch_all_route>>
tvars == <<tKey, tResult, tListing>>
evars == <<source, envUrl, possessive>>
pvars == <<rl, wh, stable>>
avars == <<call>>
cvars == <<cEvent, cItems, cOut>>
vars == <<evars, table, pvars, tvars, mvars, avars, cvars>>

None == [none |-> TRUE]

(***************************************************************************)
(* Bounds                                                                  *)
(***************************************************************************)
MaxPatLen == 3
MaxKeyLen == 2
MaxRoutes == 2
MaxFragments == 3
MaxItems == 2

(***************************************************************************)
(* Characters                                                              *)
(***************************************************************************)
PatternChars == {"A", "a", "B", ".", "+", "[", "*", "?"}
KeyChars == {"A", "a", "B", ".", "+"}

SeqsUpTo(S, n) == UNION {[1..k -> S] : k \in 0..n}

\* re.IGNORECASE: letters compare by their lower-case form
Lower(c) == CASE c = "A" -> "a" [] c = "B" -> "b" [] OTHER -> c

(***************************************************************************)
(* _match_pattern, line 121: pattern.replace('*', '.*').replace('?', '.')  *)
(***************************************************************************)
RECURSIVE ReplaceStar(_)
ReplaceStar(p) ==
    IF p = <<>> THEN <<>>
    ELSE IF Head(p) = "*" THEN <<".", "*">> \o ReplaceStar(Tail(p))
    ELSE <<Head(p)>> \o ReplaceStar(Tail(p))

RECURSIVE ReplaceQuestion(_)
ReplaceQuestion(p) ==
    IF p = <<>> THEN <<>>
    ELSE IF Head(p) = "?" THEN <<".">> \o ReplaceQuestion(Tail(p))
    ELSE <<Head(p)>> \o ReplaceQuestion(Tail(p))

RegexText(pattern) == ReplaceQuestion(ReplaceStar(pattern))

(***************************************************************************)
(* re.compile of '^' + text + '$'.  The text holds only literals, '.',     *)
(* '*', '+' and '['.  The result is a sequence of items                    *)
(* [atom |-> character or "ANY", q |-> "one" | "star" | "plus" | "pstar" | *)
(* "pplus"], with ok = FALSE when the expression does not compile:         *)
(*   - a quantifier with nothing before it (the text starts with one),     *)
(*   - a quantifier after a complete quantifier ("multiple repeat"),       *)
(*   - '[' with no closing ']' ("unterminated character set").             *)
(* A '+' right after a quantifier makes it possessive where the re module  *)
(* supports that, and is a "multiple repeat" error where it does not.      *)
(***************************************************************************)
IsQuantifier(c) == c \in {"*", "+"}

RECURSIVE ParseRegex(_, _, _)
ParseRegex(text, items, poss) ==
    IF text = <<>> THEN [ok |-> TRUE, items |-> items]
    ELSE
      LET c == Head(text)
          n == Len(items)
          failed == [ok |-> FALSE, items |-> <<>>]
      IN  IF c = "[" THEN failed
          ELSE IF IsQuantifier(c) THEN
              IF n = 0 THEN failed
              ELSE IF items[n].q = "one" THEN
                  ParseRegex(Tail(text),
                             [items EXCEPT ![n].q = IF c = "*" THEN "star" ELSE "plus"],
                             poss)
              ELSE IF c = "+" /\ poss /\ items[n].q \in {"star", "plus"} THEN
                  ParseRegex(Tail(text),
                             [items EXCEPT ![n].q = IF @ = "star" THEN "pstar" ELSE "pplus"],
                             poss)
              ELSE failed
          ELSE
              ParseRegex(Tail(text),
                         Append(items, [atom |-> IF c = "." THEN "ANY" ELSE c, q |-> "one"]),
                         poss)

AtomMatches(atom, ch) == atom = "ANY" \/ Lower(atom) = Lower(ch)

\* the number of leading characters of key[j..] that the atom matches
RECURSIVE RunLength(_, _, _)
RunLength(atom, key, j) ==
    IF j > Len(key) \/ ~AtomMatches(atom, key[j]) THEN 0
    ELSE 1 + RunLength(atom, key, j + 1)

\* items[i..] matches key[j..] up to the end of the key
RECURSIVE ItemsMatch(_, _, _, _)
ItemsMatch(items, i, key, j) ==
    IF i > Len(items) THEN j = Len(key) + 1
    ELSE
      LET it == items[i]
          run == RunLength(it.atom, key, j)
          least == IF it.q \in {"plus", "pplus"} THEN 1 ELSE 0
      IN  CASE it.q = "one" ->
                  /\ run >= 1
                  /\ ItemsMatch(items, i + 1, key, j + 1)
            [] it.q \in {"star", "plus"} ->
                  \E k \in least..run : ItemsMatch(items, i + 1, key, j + k)
            [] OTHER ->
                  /\ run >= least
                  /\ ItemsMatch(items, i + 1, key, j + run)

(***************************************************************************)
(* WebhookRouter._match_pattern: "match", "nomatch", or "raise" when       *)
(* re.match raises re.error                                                *)
(***************************************************************************)
\* The glob match the pattern tier is specified to compute: '*' stands for
\* zero or more characters, '?' for exactly one, any other character for
\* itself without regard to case, and the whole key must be matched.
RECURSIVE GlobMatch(_, _)
GlobMatch(p, k) ==
    IF p = <<>> THEN k = <<>>
    ELSE IF Head(p) = "*" THEN
        \E n \in 0..Len(k) : GlobMatch(Tail(p), SubSeq(k, n + 1, Len(k)))
    ELSE IF k = <<>> THEN FALSE
    ELSE IF Head(p) = "?" THEN GlobMatch(Tail(p), Tail(k))
    ELSE Lower(Head(p)) = Lower(Head(k)) /\ GlobMatch(Tail(p), Tail(k))

match_pattern(pattern, project_key, poss) ==
    IF pattern = <<"*">> THEN "match"
    ELSE LET parsed == ParseRegex(RegexText(pattern), <<>>, poss)
         IN  IF ~parsed.ok THEN "raise"
             ELSE IF ItemsMatch(parsed.items, 1, project_key, 1) THEN "match"
             ELSE "nomatch"

(***************************************************************************)
(* Project keys and patterns                                               *)
(***************************************************************************)
kAB == <<"A", "B">>
kab == <<"a", "b">>
kAdot == <<"A", ".">>
kBr == <<"[">>
UNKNOWN == <<"U", "N", "K", "N", "O", "W", "N">>
pAstar == <<"A", "*">>
pStar == <<"*">>

HasWildcard(p) == \E i \in 1..Len(p) : p[i] \in {"*", "?"}

(***************************************************************************)
(* ProjectRoute (lines 17-23) and the configuration source                 *)
(***************************************************************************)
ProjectRoute(name, namespace, agentapi_url, jira_projects, enabled) ==
    [name |-> name, namespace |-> namespace, agentapi_url |-> agentapi_url,
     jira_projects |-> jira_projects, enabled |-> enabled]

\* an entry of the 'routes' list of the file; valid is FALSE when one of the
\* keys name, namespace, agentapi_url is missing (route_config[...] raises)
RouteConfig(valid, name, agentapi_url, jira_projects, enabled) ==
    [valid |-> valid, name |-> name, namespace |-> "ns-" \o name,
     agentapi_url |-> agentapi_url, jira_projects |-> jira_projects,
     enabled |-> enabled]

\* the 'catch_all' entry of the file
CatchAllConfig(valid, name, agentapi_url, enabled) ==
    [valid |-> valid, name |-> name, namespace |-> "ns-" \o name,
     agentapi_url |-> agentapi_url, enabled |-> enabled]

\* kind: "absent" (no file), "unreadable" (open or yaml.safe_load raises), "ok"
Source(kind, rs, ca) == [kind |-> kind, routes |-> rs, catch_all |-> ca]

EnvValues == {"unset", "empty", "set"}

(***************************************************************************)
(* WebhookRouter._load_from_env, lines 72-85                               *)
(***************************************************************************)
\* os.getenv('DEFAULT_AGENTAPI_URL', <built-in URL>)
default_url(env) ==
    CASE env = "unset" -> "http://claude-dev-env-service"
      [] env = "empty" -> ""
      [] OTHER -> "http://env-url"

load_from_env(rs, ca, env) ==
    IF default_url(env) # ""
    THEN [routes |-> rs,
          catch_all_route |->
              ProjectRoute("default", "claude-dev", default_url(env), <<pStar>>, TRUE)]
    ELSE [routes |-> rs, catch_all_route |-> ca]

(***************************************************************************)
(* WebhookRouter.load_config, lines 32-70                                  *)
(***************************************************************************)
\* self.routes[route.name] = route : a known name keeps its place in the dict
RECURSIVE PositionOf(_, _, _)
PositionOf(rs, name, i) ==
    IF i > Len(rs) THEN 0
    ELSE IF rs[i].name = name THEN i
    ELSE PositionOf(rs, name, i + 1)

InsertRoute(rs, route) ==
    LET i == PositionOf(rs, route.name, 1)
    IN  IF i = 0 THEN Append(rs, route) ELSE [rs EXCEPT ![i] = route]

RouteOf(rc) ==
    ProjectRoute(rc.name, rc.namespace, rc.agentapi_url, rc.jira_projects, rc.enabled)

CatchAllOf(cc) ==
    ProjectRoute(cc.name, cc.namespace, cc.agentapi_url, <<pStar>>, cc.enabled)

\* lines 40-49 from entry i on, then lines 52-61; an entry that raises ends
\* in the except clause (lines 68-70) with what was inserted before it
RECURSIVE LoadRoutes(_, _, _, _, _)
LoadRoutes(rs, ca, cfg, i, env) ==
    IF i <= Len(cfg.routes) THEN
        IF cfg.routes[i].valid
        THEN LoadRoutes(InsertRoute(rs, RouteOf(cfg.routes[i])), ca, cfg, i + 1, env)
        ELSE load_from_env(rs, ca, env)
    ELSE IF cfg.catch_all = None THEN [routes |-> rs, catch_all_route |-> ca]
    ELSE IF cfg.catch_all.valid
    THEN [routes |-> rs, catch_all_route |-> CatchAllOf(cfg.catch_all)]
    ELSE load_from_env(rs, ca, env)

load_config(rs, ca, src, env) ==
    IF src.kind = "ok" THEN LoadRoutes(rs, ca, src, 1, env)
    ELSE load_from_env(rs, ca, env)

\* WebhookRouter.reload_config, lines 124-129, run without interruption
reload_config(src, env) == load_config(<<>>, None, src, env)

(***************************************************************************)
(* WebhookRouter.find_route_for_project, lines 87-113                      *)
(* A result is [kind |-> "route" | "none" | "raise", route |-> ...].       *)
(***************************************************************************)
Found(route) == [kind |-> "route", route |-> route]
NoRoute == [kind |-> "none", route |-> None]
Raised == [kind |-> "raise", route |-> None]

\* line 94: jira_project_key in route.jira_projects
ExactHit(route, key) == \E i \in 1..Len(route.jira_projects) : route.jira_projects[i] = key

\* lines 102-105 for one route, its patterns taken in order
RECURSIVE PatternHit(_, _, _, _)
PatternHit(route, key, i, poss) ==
    IF i > Len(route.jira_projects) THEN "nomatch"
    ELSE LET r == match_pattern(route.jira_projects[i], key, poss)
         IN  IF r = "nomatch" THEN PatternHit(route, key, i + 1, poss) ELSE r

\* variant of ExactTier: the check of route.enabled (lines 92-93) left out
RECURSIVE ExactTierAnyRoute(_, _, _)
ExactTierAnyRoute(rs, key, i) ==
    IF i > Len(rs) THEN NoRoute
    ELSE IF ExactHit(rs[i], key) THEN Found(rs[i])
    ELSE ExactTierAnyRoute(rs, key, i + 1)

\* lines 91-96
RECURSIVE ExactTier(_, _, _)
ExactTier(rs, key, i) ==
    IF i > Len(rs) THEN NoRoute
    ELSE IF rs[i].enabled /\ ExactHit(rs[i], key) THEN Found(rs[i])
    ELSE ExactTier(rs, key, i + 1)

\* lines 99-105
RECURSIVE PatternTier(_, _, _, _)
PatternTier(rs, key, i, poss) ==
    IF i > Len(rs) THEN NoRoute
    ELSE IF ~rs[i].enabled THEN PatternTier(rs, key, i + 1, poss)
    ELSE LET r == PatternHit(rs[i], key, 1, poss)
         IN  CASE r = "match" -> Found(rs[i])
               [] r = "raise" -> Raised
               [] OTHER -> PatternTier(rs, key, i + 1, poss)

\* lines 108-113
CatchAllTier(ca) ==
    IF ca # None /\ ca.enabled THEN Found(ca) ELSE NoRoute

\* variant of find_route_for_project: one pass over the routes, each tried
\* for an exact and then a pattern match, instead of two passes
RECURSIVE SinglePass(_, _, _, _)
SinglePass(rs, key, i, poss) ==
    IF i > Len(rs) THEN NoRoute
    ELSE IF ~rs[i].enabled THEN SinglePass(rs, key, i + 1, poss)
    ELSE IF ExactHit(rs[i], key) THEN Found(rs[i])
    ELSE LET r == PatternHit(rs[i], key, 1, poss)
         IN  CASE r = "match" -> Found(rs[i])
               [] r = "raise" -> Raised
               [] OTHER -> SinglePass(rs, key, i + 1, poss)

find_route_single_pass(rs, ca, key, poss) ==
    LET t == SinglePass(rs, key, 1, poss)
    IN  IF t.kind # "none" THEN t ELSE CatchAllTier(ca)

find_route_for_project(rs, ca, key, poss) ==
    LET t1 == ExactTier(rs, key, 1)
        t2 == PatternTier(rs, key, 1, poss)
    IN  IF t1.kind = "route" THEN t1
        ELSE IF t2.kind # "none" THEN t2
        ELSE CatchAllTier(ca)

(***************************************************************************)
(* list_routes, lines 220-246                                              *)
(***************************************************************************)
list_routes(rs, ca) ==
    [routes |-> [i \in 1..Len(rs) |->
                    [name |-> rs[i].name, namespace |-> rs[i].namespace,
                     agentapi_url |-> rs[i].agentapi_url,
                     jira_projects |-> rs[i].jira_projects,
                     enabled |-> rs[i].enabled]],
     catch_all |-> IF ca = None THEN None
                   ELSE [name |-> ca.name, namespace |-> ca.namespace,
                         agentapi_url |-> ca.agentapi_url, enabled |-> ca.enabled]]

(***************************************************************************)
(* Threads.  The server handles each request on a thread of its own, and   *)
(* the router is a module-level object shared by all of them (line 132)    *)
(* with no lock around it.                                                 *)
(***************************************************************************)
Reloaders == {"r1"}
Requests == {"w1"}

\* the variables of MatchSpec, where no match is being computed
MatchIdle == mPattern = <<>> /\ mKey = <<>> /\ mResult = "idle"

\* the variables of ApiSpec and ComposeSpec, where these do not run
ApiIdle == call = None
ComposeIdle == cEvent = <<>> /\ cItems = <<>> /\ cOut = None

\* fell_back: load_config ended in its except or else branch (lines 64-70)
IdleReloader == [pc |-> "idle", cfg |-> None, idx |-> 0, http |-> 0, fell_back |-> FALSE]

IdleRequest ==
    [pc |-> "idle", body |-> "", issue |-> FALSE, project |-> "",
     project_key |-> <<>>, used |-> 0, pos |-> 0, lookup |-> None,
     target |-> None, event |-> "", fields |-> None, prompt |-> None,
     outcome |-> None, sent |-> None, attempts |-> 0, responses |-> 0,
     http |-> 0, status |-> "", allowed |-> {}, await |-> FALSE]

ThreadsIdle ==
    /\ rl = [r \in Reloaders |-> IdleReloader]
    /\ wh = [w \in Requests |-> IdleRequest]
    /\ stable = [routes |-> routes, catch_all_route |-> catch_all_route]

(***************************************************************************)
(* Spec: the running server.  The configuration file is one of a few       *)
(* versions and may be edited at any time; reload and webhook requests     *)
(* run on their threads, one bytecode-level step of theirs at a time       *)
(* wherever they touch the shared router.                                  *)
(***************************************************************************)
ConfigA == RouteConfig(TRUE, "A", "http://A", <<kAB>>, TRUE)
ConfigB == RouteConfig(TRUE, "B", "http://B", <<pAstar>>, TRUE)
ConfigBad == RouteConfig(FALSE, "A", "", <<>>, TRUE)

ConfigVersions ==
    {Source("ok", <<ConfigA, ConfigB>>,
            CatchAllConfig(TRUE, "fallback", "http://fallback", TRUE)),
     Source("ok", <<ConfigB>>,
            CatchAllConfig(TRUE, "fallback", "http://fallback", FALSE)),
     Source("ok", <<ConfigB, ConfigBad>>, None)}

SpecKeys == {kAB, UNKNOWN}

\* no pattern of ConfigVersions holds a '+', so possessive is not read; the
\* environment names no default endpoint (TableSpec varies it)
SpecEnvValues == {"unset"}

\* What request.get_json() and the first reads of the payload meet.  body:
\*   "unparseable"  the body is not JSON: get_json raises BadRequest
\*   "missing"      no JSON body is sent: get_json returns None, or raises
\*                  UnsupportedMediaType, as the installed Flask decides
\*   "null"         the body is the JSON null: get_json returns None
\*   "empty"        the body is {}
\*   "object"       a non-empty JSON object
Payloads ==
    {[body |-> b, issue |-> FALSE, project |-> "absent", key |-> <<>>] :
        b \in {"unparseable", "missing", "null", "empty", "object"}}
    \cup {[body |-> "object", issue |-> TRUE, project |-> p, key |-> <<>>] :
            p \in {"absent", "null"}}
    \cup {[body |-> "object", issue |-> TRUE, project |-> "key", key |-> k] :
            k \in SpecKeys}

\* an optional member of the payload: missing, JSON null, or an object
FieldStates == {"absent", "null", "present"}

\* the tickets: priority, status and assignee each missing or null, in every
\* combination, and the ticket that has them all; the changelog in any state
TicketFields ==
    [priority : {"absent", "null"}, status : {"absent", "null"},
     assignee : {"absent", "null"}, changelog : FieldStates]
    \cup [priority : {"present"}, status : {"present"}, assignee : {"present"},
          changelog : FieldStates]

\* webhookEvent, by the two substrings the handler tests for
Events == [updated : BOOLEAN, assigned : BOOLEAN]

StatusCodes == {200, 201, 299, 300, 404, 500}
Outcomes ==
    {[kind |-> "status", code |-> c] : c \in StatusCodes}
    \cup {[kind |-> "failure", code |-> 0]}

Init ==
    /\ source \in ConfigVersions
    /\ envUrl \in SpecEnvValues
    /\ possessive = TRUE
    /\ LET t == load_config(<<>>, None, source, envUrl)
       IN  routes = t.routes /\ catch_all_route = t.catch_all_route
    /\ ThreadsIdle
    /\ tKey = None
    /\ tResult = None
    /\ tListing = None
    /\ MatchIdle
    /\ ApiIdle
    /\ ComposeIdle

\* the file behind config_path is rewritten
EditSource ==
    /\ source' \in ConfigVersions \ {source}
    /\ UNCHANGED <<envUrl, possessive, table, pvars, tvars, mvars, avars, cvars>>

(************************ POST /config/reload ******************************)
ReloadBusy == \E r \in DOMAIN rl : rl[r].pc \notin {"idle", "respond"}

LookupPcs == {"t1_iter", "t1_next", "t2_iter", "t2_next", "ca1", "ca2", "ca3", "ca4"}

\* history: a load has finished and left table t; every lookup it overlapped
\* may answer as on t
NoteLoaded(t) ==
    /\ stable' = t
    /\ wh' = [w \in Requests |->
                IF wh[w].pc \in LookupPcs \/ wh[w].await
                THEN [wh[w] EXCEPT
                        !.allowed = @ \cup {find_route_for_project(
                            t.routes, t.catch_all_route, wh[w].project_key, possessive)},
                        !.await = FALSE]
                ELSE wh[w]]

SetTable(t) == routes' = t.routes /\ catch_all_route' = t.catch_all_route

\* line 127: self.routes.clear()
RClear(r) ==
    /\ rl[r].pc = "idle"
    /\ rl' = [rl EXCEPT ![r] = [IdleReloader EXCEPT !.pc = "cleared"]]
    /\ routes' = <<>>
    /\ UNCHANGED <<evars, catch_all_route, wh, stable, tvars, mvars, avars, cvars>>

\* line 128: self.catch_all_route = None
RUnset(r) ==
    /\ rl[r].pc = "cleared"
    /\ rl' = [rl EXCEPT ![r].pc = "read"]
    /\ catch_all_route' = None
    /\ UNCHANGED <<evars, routes, wh, stable, tvars, mvars, avars, cvars>>

\* lines 35-37: the file is read; lines 64-70 when it is missing or unreadable
RRead(r) ==
    /\ rl[r].pc = "read"
    /\ IF source.kind = "ok"
       THEN /\ rl' = [rl EXCEPT ![r].pc = "routes", ![r].cfg = source, ![r].idx = 1]
            /\ UNCHANGED <<table, wh, stable>>
       ELSE LET t == load_from_env(routes, catch_all_route, envUrl)
            IN  /\ rl' = [rl EXCEPT ![r].pc = "respond", ![r].fell_back = TRUE]
                /\ SetTable(t)
                /\ NoteLoaded(t)
    /\ UNCHANGED <<evars, tvars, mvars, avars, cvars>>

\* lines 40-49, one entry of the file; lines 68-70 when the entry raises
RRoute(r) ==
    /\ rl[r].pc = "routes"
    /\ rl[r].idx <= Len(rl[r].cfg.routes)
    /\ LET rc == rl[r].cfg.routes[rl[r].idx]
       IN  IF rc.valid
           THEN /\ routes' = InsertRoute(routes, RouteOf(rc))
                /\ rl' = [rl EXCEPT ![r].idx = @ + 1]
                /\ UNCHANGED <<catch_all_route, wh, stable>>
           ELSE LET t == load_from_env(routes, catch_all_route, envUrl)
                IN  /\ rl' = [rl EXCEPT ![r].pc = "respond", ![r].fell_back = TRUE]
                    /\ SetTable(t)
                    /\ NoteLoaded(t)
    /\ UNCHANGED <<evars, tvars, mvars, avars, cvars>>

\* lines 52-63, after the last entry; lines 68-70 when the catch-all raises
RCatchAll(r) ==
    /\ rl[r].pc = "routes"
    /\ rl[r].idx > Len(rl[r].cfg.routes)
    /\ LET cc == rl[r].cfg.catch_all
           t == IF cc = None THEN [routes |-> routes, catch_all_route |-> catch_all_route]
                ELSE IF cc.valid
                THEN [routes |-> routes, catch_all_route |-> CatchAllOf(cc)]
                ELSE load_from_env(routes, catch_all_route, envUrl)
       IN  /\ rl' = [rl EXCEPT ![r].pc = "respond",
                                ![r].fell_back = (cc # None /\ ~cc.valid)]
           /\ SetTable(t)
           /\ NoteLoaded(t)
    /\ UNCHANGED <<evars, tvars, mvars, avars, cvars>>

\* lines 209-213: load_config raised nothing, the endpoint answers 200
RRespond(r) ==
    /\ rl[r].pc = "respond"
    /\ rl' = [rl EXCEPT ![r] = [IdleReloader EXCEPT !.http = 200,
                                                     !.fell_back = rl[r].fell_back]]
    /\ UNCHANGED <<evars, table, wh, stable, tvars, mvars, avars, cvars>>

(************************* POST /jira-webhook ******************************)
\* return jsonify(...), http : the request is answered and the locals of
\* the handler are gone; what stays is the payload, the lookup's answer, the
\* delivery and the response
Respond(rec, http, status) ==
    [rec EXCEPT !.pc = "done", !.http = http, !.status = status, !.responses = @ + 1,
                !.target = None, !.event = "", !.prompt = None]

\* variant of Return: a key without a route is answered as an error
ReturnNoRouteIsError(rec, result) ==
    LET r == [rec EXCEPT !.lookup = result, !.await = ReloadBusy,
                         !.used = 0, !.pos = 0]
    IN  CASE result.kind = "raise" -> Respond(r, 500, "error")
          [] result.kind = "none" -> Respond(r, 404, "error")
          [] OTHER -> [r EXCEPT !.pc = "render", !.target = result.route]

\* find_route_for_project returns (or raises), and lines 272-279 and 340-342
\* act on it
Return(rec, result) ==
    LET r == [rec EXCEPT !.lookup = result, !.await = ReloadBusy,
                         !.used = 0, !.pos = 0]
    IN  CASE result.kind = "raise" -> Respond(r, 500, "error")
          [] result.kind = "none" -> Respond(r, 200, "ignored")
          [] OTHER -> [r EXCEPT !.pc = "render", !.target = result.route]

\* lines 250-269: the payload is read, up to the call of the lookup
Receive(w) ==
    /\ wh[w].pc = "idle"
    /\ \E p \in Payloads, raises \in BOOLEAN :
          LET rec == [IdleRequest EXCEPT !.body = p.body, !.issue = p.issue,
                                         !.project = p.project]
          IN  wh' = [wh EXCEPT ![w] =
                CASE p.body = "unparseable" -> Respond(rec, 500, "error")
                  [] p.body = "missing" /\ raises -> Respond(rec, 500, "error")
                  [] p.body \in {"missing", "null", "empty"} -> Respond(rec, 400, "error")
                  [] ~p.issue -> Respond(rec, 200, "ignored")
                  [] p.project = "null" -> Respond(rec, 500, "error")
                  [] OTHER ->
                      LET key == IF p.project = "absent" THEN UNKNOWN ELSE p.key
                      IN  [rec EXCEPT
                             !.pc = "t1_iter",
                             !.project_key = key,
                             !.allowed = {find_route_for_project(
                                 stable.routes, stable.catch_all_route, key, possessive)}]]
    /\ UNCHANGED <<evars, table, rl, stable, tvars, mvars, avars, cvars>>

\* line 91: the iterator over self.routes.values() is made
T1Iter(w) ==
    /\ wh[w].pc = "t1_iter"
    /\ wh' = [wh EXCEPT ![w].pc = "t1_next", ![w].used = Len(routes), ![w].pos = 0]
    /\ UNCHANGED <<evars, table, rl, stable, tvars, mvars, avars, cvars>>

\* lines 91-96: the iterator is advanced and the loop body run
T1Next(w) ==
    /\ wh[w].pc = "t1_next"
    /\ wh' = [wh EXCEPT ![w] =
          IF Len(routes) # @.used THEN Return(@, Raised)
          ELSE IF @.pos >= Len(routes) THEN [@ EXCEPT !.pc = "t2_iter"]
          ELSE LET route == routes[@.pos + 1]
               IN  IF route.enabled /\ ExactHit(route, @.project_key)
                   THEN Return(@, Found(route))
                   ELSE [@ EXCEPT !.pos = @ + 1]]
    /\ UNCHANGED <<evars, table, rl, stable, tvars, mvars, avars, cvars>>

\* line 99
T2Iter(w) ==
    /\ wh[w].pc = "t2_iter"
    /\ wh' = [wh EXCEPT ![w].pc = "t2_next", ![w].used = Len(routes), ![w].pos = 0]
    /\ UNCHANGED <<evars, table, rl, stable, tvars, mvars, avars, cvars>>

\* lines 99-105
T2Next(w) ==
    /\ wh[w].pc = "t2_next"
    /\ wh' = [wh EXCEPT ![w] =
          IF Len(routes) # @.used THEN Return(@, Raised)
          ELSE IF @.pos >= Len(routes) THEN [@ EXCEPT !.pc = "ca1"]
          ELSE LET route == routes[@.pos + 1]
                   hit == IF route.enabled
                          THEN PatternHit(route, @.project_key, 1, possessive)
                          ELSE "nomatch"
               IN  CASE hit = "match" -> Return(@, Found(route))
                     [] hit = "raise" -> Return(@, Raised)
                     [] OTHER -> [@ EXCEPT !.pos = @ + 1]]
    /\ UNCHANGED <<evars, table, rl, stable, tvars, mvars, avars, cvars>>

\* line 108, left operand: self.catch_all_route
Ca1(w) ==
    /\ wh[w].pc = "ca1"
    /\ wh' = [wh EXCEPT ![w] =
          IF catch_all_route = None THEN Return(@, NoRoute) ELSE [@ EXCEPT !.pc = "ca2"]]
    /\ UNCHANGED <<evars, table, rl, stable, tvars, mvars, avars, cvars>>

\* line 108, right operand: self.catch_all_route.enabled
Ca2(w) ==
    /\ wh[w].pc = "ca2"
    /\ wh' = [wh EXCEPT ![w] =
          IF catch_all_route = None THEN Return(@, Raised)
          ELSE IF ~catch_all_route.enabled THEN Return(@, NoRoute)
          ELSE [@ EXCEPT !.pc = "ca3"]]
    /\ UNCHANGED <<evars, table, rl, stable, tvars, mvars, avars, cvars>>

\* line 109: self.catch_all_route.name is logged
Ca3(w) ==
    /\ wh[w].pc = "ca3"
    /\ wh' = [wh EXCEPT ![w] =
          IF catch_all_route = None THEN Return(@, Raised) ELSE [@ EXCEPT !.pc = "ca4"]]
    /\ UNCHANGED <<evars, table, rl, stable, tvars, mvars, avars, cvars>>

\* line 110: return self.catch_all_route
Ca4(w) ==
    /\ wh[w].pc = "ca4"
    /\ wh' = [wh EXCEPT ![w] =
          IF catch_all_route = None THEN Return(@, NoRoute)
          ELSE Return(@, Found(catch_all_route))]
    /\ UNCHANGED <<evars, table, rl, stable, tvars, mvars, avars, cvars>>

\* variant of template_key: 'assigned' is tested before 'updated'
template_key_assigned_first(event) ==
    IF event.assigned THEN "issue_assigned"
    ELSE IF event.updated THEN "issue_updated"
    ELSE "issue_created"

\* lines 282-286
template_key(event) ==
    IF event.updated THEN "issue_updated"
    ELSE IF event.assigned THEN "issue_assigned"
    ELSE "issue_created"

\* lines 294-298: which reads of the ticket raise AttributeError
RenderRaises(event, f) ==
    \/ f.priority = "null"
    \/ f.status = "null"
    \/ (event.updated /\ f.changelog = "null")

\* lines 289-303: the values the prompt is formatted with
RenderPrompt(event, f) ==
    [template |-> template_key(event),
     priority |-> IF f.priority = "present" THEN "High" ELSE "None",
     status |-> IF f.status = "present" THEN "Open" ELSE "Unknown",
     assignee |-> IF f.assignee = "present" THEN "Ann" ELSE "Unassigned"]

\* lines 281-303; the changelog is read for an update event only.  The
\* history of the finished lookup is dropped here.
Render(w) ==
    /\ wh[w].pc = "render"
    /\ \E event \in Events, f \in TicketFields :
          /\ (~event.updated => f.changelog = "absent")
          /\ LET rec == [wh[w] EXCEPT !.event = template_key(event), !.fields = f,
                                   !.lookup = None, !.allowed = {}, !.await = FALSE]
             IN  wh' = [wh EXCEPT ![w] =
                   IF RenderRaises(event, f) THEN Respond(rec, 500, "error")
                   ELSE [rec EXCEPT !.pc = "deliver", !.prompt = RenderPrompt(event, f)]]
    /\ UNCHANGED <<evars, table, rl, stable, tvars, mvars, avars, cvars>>

\* line 317
IsSuccess(code) == code = 200

\* variant of Deliver: a delivery that fails at the transport level is
\* tried once more before the request is answered
DeliverWithRetry(w) ==
    /\ wh[w].pc = "deliver"
    /\ \E o \in Outcomes :
          LET rec == [wh[w] EXCEPT
                        !.attempts = @ + 1,
                        !.outcome = o,
                        !.sent = [url |-> wh[w].target.agentapi_url,
                                  route |-> wh[w].target.name]]
          IN  wh' = [wh EXCEPT ![w] =
                IF o.kind = "failure" /\ rec.attempts < 2 THEN rec
                ELSE IF o.kind = "failure" THEN Respond(rec, 500, "error")
                ELSE IF IsSuccess(o.code) THEN Respond(rec, 200, "success")
                ELSE Respond(rec, 500, "error")]
    /\ UNCHANGED <<evars, table, rl, stable, tvars, mvars, avars, cvars>>

\* lines 305-338: the one POST to the route's /message and the answer built
\* from its outcome; ticket fields and prompt are dead after the call
Deliver(w) ==
    /\ wh[w].pc = "deliver"
    /\ \E o \in Outcomes :
          LET rec == [wh[w] EXCEPT
                        !.attempts = @ + 1,
                        !.outcome = o,
                        !.sent = [url |-> wh[w].target.agentapi_url,
                                  route |-> wh[w].target.name],
                        !.fields = None]
          IN  wh' = [wh EXCEPT ![w] =
                IF o.kind = "failure" THEN Respond(rec, 500, "error")
                ELSE IF IsSuccess(o.code) THEN Respond(rec, 200, "success")
                ELSE Respond(rec, 500, "error")]
    /\ UNCHANGED <<evars, table, rl, stable, tvars, mvars, avars, cvars>>

\* the thread is free for the next request
Finish(w) ==
    /\ wh[w].pc = "done"
    /\ wh' = [wh EXCEPT ![w] = IdleRequest]
    /\ UNCHANGED <<evars, table, rl, stable, tvars, mvars, avars, cvars>>

Reload(r) == RClear(r) \/ RUnset(r) \/ RRead(r) \/ RRoute(r) \/ RCatchAll(r) \/ RRespond(r)

Lookup(w) == T1Iter(w) \/ T1Next(w) \/ T2Iter(w) \/ T2Next(w)
                \/ Ca1(w) \/ Ca2(w) \/ Ca3(w) \/ Ca4(w)

Handle(w) == Receive(w) \/ Lookup(w) \/ Render(w) \/ Deliver(w) \/ Finish(w)

Next ==
    \/ EditSource
    \/ \E r \in Reloaders : Reload(r)
    \/ \E w \in Requests : Handle(w)

Spec == Init /\ [][Next]_vars

\* A request thread that can take a step takes one: the server runs its
\* handlers to their end, and the POST of the delivery returns or raises
\* within its timeout of 30 seconds (line 314).  No request has to arrive.
LiveSpec ==
    Spec /\ \A w \in Requests : WF_vars(Lookup(w) \/ Render(w) \/ Deliver(w))

(***************************************************************************)
(* Properties of the running server (Spec, LiveSpec)                       *)
(***************************************************************************)
\* C1: a lookup that runs while the table is reloaded answers as it would
\* on the complete table before the reload or on the complete table after
\* it; it sees no emptied or half-built table and does not fail.  (allowed
\* holds the answers on the complete tables of the lookup's lifetime; a
\* lookup is judged once every reload it overlapped has finished.)
C1_ReloadAtomic ==
    \A w \in Requests :
        (wh[w].lookup # None /\ ~wh[w].await) => wh[w].lookup \in wh[w].allowed

\* C12: a reload whose load failed is answered HTTP 500, and a reload is
\* answered 200 only when the table was loaded from the source.
C12_ReloadFailure500 ==
    \A r \in DOMAIN rl :
        rl[r].http # 0 =>
            /\ (rl[r].fell_back => rl[r].http = 500)
            /\ (rl[r].http = 200 => ~rl[r].fell_back)

Is2xx(code) == code >= 200 /\ code <= 299

\* C6: the status of the downstream answer decides the result: any 2xx is
\* a success (HTTP 200), any other status and any transport failure an
\* error (HTTP 500).
C6_StatusDecides ==
    \A w \in Requests :
        (wh[w].pc = "done" /\ wh[w].outcome # None) =>
            IF wh[w].outcome.kind = "status" /\ Is2xx(wh[w].outcome.code)
            THEN wh[w].status = "success" /\ wh[w].http = 200
            ELSE wh[w].status = "error" /\ wh[w].http = 500

\* C7: with priority, status and assignee each missing or null, the prompt
\* is rendered with the defaults and the request goes on to the delivery.
C7_OptionalFieldsDefault ==
    \A w \in Requests :
        (/\ wh[w].fields # None
         /\ wh[w].fields.changelog # "null"
         /\ wh[w].fields.priority \in {"absent", "null"}
         /\ wh[w].fields.status \in {"absent", "null"}
         /\ wh[w].fields.assignee \in {"absent", "null"})
        => /\ wh[w].pc = "deliver"
           /\ wh[w].prompt.priority = "None"
           /\ wh[w].prompt.status = "Unknown"
           /\ wh[w].prompt.assignee = "Unassigned"

\* C8: a request whose payload is missing, empty or not parseable is
\* answered 400, with no lookup and no delivery.
C8_InvalidPayload400 ==
    \A w \in Requests :
        (wh[w].pc = "done" /\ wh[w].body \in {"unparseable", "missing", "null", "empty"})
        => /\ wh[w].http = 400
           /\ wh[w].status = "error"
           /\ wh[w].lookup = None
           /\ wh[w].attempts = 0

\* C9: a payload without an issue, and a payload whose project key finds no
\* route, are answered "ignored" with HTTP 200, and nothing is delivered
\* for an ignored request.
C9_IgnoredNoDelivery ==
    \A w \in Requests :
        wh[w].pc = "done" =>
            /\ (wh[w].body = "object" /\ ~wh[w].issue)
                  => (wh[w].status = "ignored" /\ wh[w].http = 200)
            /\ (wh[w].lookup # None /\ wh[w].lookup.kind = "none")
                  => (wh[w].status = "ignored" /\ wh[w].http = 200)
            /\ wh[w].status = "ignored"
                  => (wh[w].attempts = 0 /\ wh[w].sent = None)

\* a request without a project, whose key UNKNOWN found no route, ignored
C9_Witness ==
    \E w \in Requests :
        /\ wh[w].pc = "done"
        /\ wh[w].project = "absent"
        /\ wh[w].issue
        /\ wh[w].lookup = NoRoute
        /\ wh[w].status = "ignored"

\* C10: a request makes at most one delivery attempt, only on a resolved
\* route, is answered exactly once, with an error whenever the lookup, the
\* rendering or the delivery failed, and every request is answered.
C10_OneAttemptOneResponse ==
    /\ [](\A w \in Requests :
            /\ wh[w].attempts <= 1
            /\ wh[w].responses <= 1
            /\ (wh[w].pc = "deliver" => wh[w].target # None)
            /\ (wh[w].attempts = 1 => wh[w].sent # None)
            /\ (wh[w].pc = "done" <=> wh[w].responses = 1)
            /\ (wh[w].pc = "done" /\ wh[w].outcome # None
                    /\ (wh[w].outcome.kind = "failure" \/ ~Is2xx(wh[w].outcome.code))
                  => (wh[w].status = "error" /\ wh[w].attempts = 1))
            /\ (wh[w].pc = "done" /\ wh[w].lookup # None /\ wh[w].lookup.kind = "raise"
                  => wh[w].status = "error"))
    /\ \A w \in Requests : (wh[w].pc # "idle") ~> (wh[w].pc = "done")

\* a request answered with an error after its one delivery attempt failed
C10_Witness ==
    \E w \in Requests :
        /\ wh[w].pc = "done"
        /\ wh[w].attempts = 1
        /\ wh[w].responses = 1
        /\ wh[w].outcome # None
        /\ wh[w].outcome.kind = "failure"
        /\ wh[w].status = "error"

(***************************************************************************)
(* ReloadSpec: two POST /config/reload requests on their threads, while    *)
(* the configuration file may be edited; no other request runs.            *)
(***************************************************************************)
TwoReloaders == {"r1", "r2"}

ReloadInit ==
    /\ source \in ConfigVersions
    /\ envUrl \in SpecEnvValues
    /\ possessive = TRUE
    /\ LET t == load_config(<<>>, None, source, envUrl)
       IN  routes = t.routes /\ catch_all_route = t.catch_all_route
    /\ rl = [r \in TwoReloaders |-> IdleReloader]
    /\ wh = [w \in Requests |-> IdleRequest]
    /\ stable = [routes |-> routes, catch_all_route |-> catch_all_route]
    /\ tKey = None
    /\ tResult = None
    /\ tListing = None
    /\ MatchIdle
    /\ ApiIdle
    /\ ComposeIdle

ReloadNext == EditSource \/ \E r \in TwoReloaders : Reload(r)

ReloadSpec == ReloadInit /\ [][ReloadNext]_vars

RouteSet(rs) == {rs[i] : i \in 1..Len(rs)}

\* C14: whenever no reload is in progress, the table is the result of one
\* complete load of one version of the source: the same routes (in any
\* order) and the same catch-all; never routes or catch-all of two
\* versions, never an unset catch-all that the version defines.
C14_ReloadsSerialized ==
    ~ReloadBusy =>
        \E v \in ConfigVersions :
            LET t == reload_config(v, envUrl)
            IN  /\ RouteSet(routes) = RouteSet(t.routes)
                /\ catch_all_route = t.catch_all_route

(***************************************************************************)
(* TableSpec: one thread.  The table is loaded at construction (line 30)   *)
(* from any bounded configuration source; lookups, listings and reloads    *)
(* then run one after the other.                                           *)
(***************************************************************************)
RouteNames == {"A", "B"}

PatternLists ==
    {<<kAB>>, <<kab>>, <<pAstar>>, <<pStar>>, <<kAdot>>, <<kBr>>}

RouteConfigs ==
    {RouteConfig(TRUE, n, "http://" \o n, ps, e) :
        n \in RouteNames, ps \in PatternLists, e \in BOOLEAN}
    \cup {RouteConfig(FALSE, "A", "", <<>>, TRUE)}

CatchAllConfigs ==
    {None, CatchAllConfig(TRUE, "fallback", "http://fallback", TRUE),
           CatchAllConfig(TRUE, "fallback", "http://fallback", FALSE),
           CatchAllConfig(FALSE, "fallback", "", TRUE)}

TableSources ==
    {Source("absent", <<>>, None), Source("unreadable", <<>>, None)}
    \cup {Source("ok", rs, ca) :
            rs \in SeqsUpTo(RouteConfigs, MaxRoutes), ca \in CatchAllConfigs}

TableKeys == {kAB, kab, kAdot, kBr, UNKNOWN}

\* whether load_config ends in _load_from_env, the only reader of the environment
FallsBack(src) ==
    \/ src.kind # "ok"
    \/ \E i \in 1..Len(src.routes) : ~src.routes[i].valid
    \/ (src.catch_all # None /\ ~src.catch_all.valid)

\* No pattern of PatternLists holds a '+', so the table never depends on
\* possessive; the environment is varied where load_config reads it.
TableInit ==
    /\ source \in TableSources
    /\ envUrl \in (IF FallsBack(source) THEN EnvValues ELSE {"unset"})
    /\ possessive = TRUE
    /\ LET t == load_config(<<>>, None, source, envUrl)
       IN  routes = t.routes /\ catch_all_route = t.catch_all_route
    /\ tKey = None
    /\ tResult = None
    /\ tListing = None
    /\ MatchIdle
    /\ ApiIdle
    /\ ComposeIdle
    /\ ThreadsIdle

\* router.find_route_for_project(key)
TLookup(key) ==
    /\ tKey' = key
    /\ tResult' = find_route_for_project(routes, catch_all_route, key, possessive)
    /\ tListing' = None
    /\ UNCHANGED <<evars, table, pvars, mvars, avars, cvars>>

\* GET /routes
TList ==
    /\ tListing' = list_routes(routes, catch_all_route)
    /\ tKey' = None
    /\ tResult' = None
    /\ UNCHANGED <<evars, table, pvars, mvars, avars, cvars>>

\* router.reload_config()
TReload ==
    /\ LET t == reload_config(source, envUrl)
       IN  routes' = t.routes /\ catch_all_route' = t.catch_all_route
    /\ tKey' = None
    /\ tResult' = None
    /\ tListing' = None
    /\ UNCHANGED <<evars, pvars, mvars, avars, cvars>>

TableNext == (\E key \in TableKeys : TLookup(key)) \/ TList \/ TReload

TableSpec == TableInit /\ [][TableNext]_vars

(***************************************************************************)
(* Properties of lookup on a loaded table (TableSpec)                      *)
(***************************************************************************)
Looked == tResult # None

\* route i is enabled and is the only enabled route that lists key
OnlyExactOwner(i, key) ==
    /\ routes[i].enabled
    /\ ExactHit(routes[i], key)
    /\ \A j \in 1..Len(routes) :
          j # i => ~(routes[j].enabled /\ ExactHit(routes[j], key))

\* some pattern of the route matches key as a glob
GlobHit(route, key) ==
    \E n \in 1..Len(route.jira_projects) : GlobMatch(route.jira_projects[n], key)

\* C2: a wildcard-free key listed by exactly one enabled route resolves to
\* that route, whatever wildcard patterns other enabled routes hold and
\* wherever those routes stand in the table.
C2_ExactBeforePattern ==
    Looked =>
        \A i \in 1..Len(routes) :
            (~HasWildcard(tKey) /\ OnlyExactOwner(i, tKey))
                => tResult = Found(routes[i])

\* a lookup whose key is owned exactly by the second route while the first,
\* enabled, route matches it by a wildcard pattern
C2_Witness ==
    /\ Looked
    /\ Len(routes) = 2
    /\ OnlyExactOwner(2, tKey)
    /\ routes[1].enabled
    /\ \E n \in 1..Len(routes[1].jira_projects) :
          /\ HasWildcard(routes[1].jira_projects[n])
          /\ match_pattern(routes[1].jira_projects[n], tKey, possessive) = "match"
    /\ tResult = Found(routes[2])

\* C4: lookup never returns a route whose enabled flag is false, in any
\* tier, and the listing shows every route, disabled ones included, with
\* its enabled flag.
C4_DisabledInvisible ==
    /\ (Looked /\ tResult.kind = "route") => tResult.route.enabled
    /\ tListing # None =>
          /\ Len(tListing.routes) = Len(routes)
          /\ \A i \in 1..Len(routes) :
                /\ tListing.routes[i].name = routes[i].name
                /\ tListing.routes[i].enabled = routes[i].enabled
          /\ (catch_all_route # None =>
                /\ tListing.catch_all # None
                /\ tListing.catch_all.enabled = catch_all_route.enabled)

\* a lookup of a key that only a disabled route lists, with a disabled
\* catch-all: nothing is returned
C4_Witness ==
    /\ Looked
    /\ \E i \in 1..Len(routes) : ~routes[i].enabled /\ ExactHit(routes[i], tKey)
    /\ catch_all_route # None
    /\ ~catch_all_route.enabled
    /\ tResult = NoRoute

\* C5: lookup returns the catch-all exactly when the catch-all exists, is
\* enabled, and no enabled route matches the key in the exact tier or, as a
\* glob, in the pattern tier.
C5_CatchAllFallback ==
    Looked =>
        LET matched == \E i \in 1..Len(routes) :
                          /\ routes[i].enabled
                          /\ (ExactHit(routes[i], tKey) \/ GlobHit(routes[i], tKey))
            usable == catch_all_route # None /\ catch_all_route.enabled
        IN  (tResult = Found(catch_all_route)) <=> (usable /\ ~matched)

\* C11: when the source is absent, unreadable or invalid (an entry of it
\* raises), the table that load and reload leave is exactly the environment
\* fallback: no routes, and the catch-all built from the environment; also
\* when valid entries precede the invalid one.
C11_FallbackTable ==
    FallsBack(source) =>
        /\ routes = <<>>
        /\ catch_all_route = load_from_env(<<>>, None, envUrl).catch_all_route

\* C13: in the environment fallback with DEFAULT_AGENTAPI_URL not set, the
\* catch-all is unset and the routes are empty, and every lookup yields
\* none.
C13_NoDefaultNoCatchAll ==
    (source.kind # "ok" /\ envUrl = "unset") =>
        /\ routes = <<>>
        /\ catch_all_route = None
        /\ (Looked => tResult = NoRoute)

\* C16: lookup yields none exactly when no enabled route matches the key in
\* the exact tier or, as a glob, in the pattern tier, and there is no
\* enabled catch-all; in particular for every key on a table with no
\* enabled route and no enabled catch-all.
C16_NoneExactly ==
    Looked =>
        LET matched == \E i \in 1..Len(routes) :
                          /\ routes[i].enabled
                          /\ (ExactHit(routes[i], tKey) \/ GlobHit(routes[i], tKey))
            usable == catch_all_route # None /\ catch_all_route.enabled
        IN  (tResult = NoRoute) <=> (~matched /\ ~usable)

(***************************************************************************)
(* ApiSpec: the endpoints of the service, served one request after the     *)
(* other on a table loaded from any bounded configuration file.  call is   *)
(* the last request served: its input, its answer, and the requests it     *)
(* made to the routes' endpoints (posts to /message, gets of /status).     *)
(***************************************************************************)
ApiNames == {"A", "catch_all"}

ApiRouteConfigs ==
    {RouteConfig(TRUE, n, "http://" \o n, ps, e) :
        n \in ApiNames, ps \in {<<kAB>>}, e \in BOOLEAN}

ApiCatchAllConfigs ==
    {None, CatchAllConfig(TRUE, "fallback", "http://fallback", TRUE),
           CatchAllConfig(TRUE, "fallback", "http://fallback", FALSE)}

ApiSources ==
    {Source("absent", <<>>, None)}
    \cup {Source("ok", rs, ca) :
            rs \in SeqsUpTo(ApiRouteConfigs, MaxRoutes), ca \in ApiCatchAllConfigs}

\* the answers of a route's endpoint that the handlers tell apart
ApiOutcomes == {o \in Outcomes : o.kind = "failure" \/ o.code \in {200, 201, 500}}
ProbeOutcomes == {o \in Outcomes : o.kind = "failure" \/ o.code \in {200, 500}}

ApiInit ==
    /\ source \in ApiSources
    /\ envUrl \in (IF FallsBack(source) THEN {"unset", "empty"} ELSE {"unset"})
    /\ possessive = TRUE
    /\ LET t == load_config(<<>>, None, source, envUrl)
       IN  routes = t.routes /\ catch_all_route = t.catch_all_route
    /\ call = None
    /\ tKey = None
    /\ tResult = None
    /\ tListing = None
    /\ ThreadsIdle
    /\ MatchIdle
    /\ ComposeIdle

\* the file behind config_path is replaced by one of the versions
AEdit ==
    /\ source' \in ConfigVersions \ {source}
    /\ UNCHANGED <<envUrl, possessive, table, pvars, tvars, mvars, avars, cvars>>

\* POST /config/reload, lines 204-218
AReload ==
    /\ LET t == reload_config(source, envUrl)
       IN  routes' = t.routes /\ catch_all_route' = t.catch_all_route
    /\ call' = [op |-> "reload", http |-> 200, posts |-> <<>>, gets |-> <<>>]
    /\ UNCHANGED <<evars, pvars, tvars, mvars, cvars>>

\* GET /health, lines 195-202
AHealth ==
    /\ call' = [op |-> "health", http |-> 200, posts |-> <<>>, gets |-> <<>>,
                routes_loaded |-> Len(routes),
                catch_all_enabled |-> catch_all_route # None]
    /\ UNCHANGED <<evars, table, pvars, tvars, mvars, cvars>>

\* GET /routes, lines 220-246
AList ==
    /\ call' = [op |-> "routes", http |-> 200, posts |-> <<>>, gets |-> <<>>,
                body |-> list_routes(routes, catch_all_route)]
    /\ UNCHANGED <<evars, table, pvars, tvars, mvars, cvars>>

\* POST /jira-webhook, lines 248-342, for a payload with an issue and a
\* project key, served without interruption
AWebhook ==
    /\ \E key \in SpecKeys, o \in ApiOutcomes :
          LET found == find_route_for_project(routes, catch_all_route, key, possessive)
              base == [op |-> "webhook", key |-> key, gets |-> <<>>]
              sent == <<[url |-> found.route.agentapi_url, route |-> found.route.name,
                         enabled |-> found.route.enabled, content |-> "rendered"]>>
          IN  call' =
                CASE found.kind = "raise" ->
                        base @@ [http |-> 500, status |-> "error", posts |-> <<>>]
                  [] found.kind = "none" ->
                        base @@ [http |-> 200, status |-> "ignored", posts |-> <<>>]
                  [] OTHER ->
                        IF o.kind = "status" /\ IsSuccess(o.code)
                        THEN base @@ [http |-> 200, status |-> "success", posts |-> sent]
                        ELSE base @@ [http |-> 500, status |-> "error", posts |-> sent]
    /\ UNCHANGED <<evars, table, pvars, tvars, mvars, cvars>>

(************************* POST /trigger-claude ****************************)
\* router.routes.get(project_name), line 358
RoutesGet(rs, name) ==
    LET i == PositionOf(rs, name, 1) IN IF i = 0 THEN None ELSE rs[i]

\* the project key that reads as the given name
NameKey(name) ==
    CASE name = "A" -> <<"A">>
      [] name = "B" -> <<"B">>
      [] name = "AB" -> kAB
      [] OTHER -> UNKNOWN

\* variant of TriggerTarget: the name is resolved as a JIRA project key
TriggerTargetByKey(rs, ca, project_name) ==
    LET found == find_route_for_project(rs, ca, NameKey(project_name), TRUE)
    IN  IF found.kind = "route" THEN found.route ELSE None

\* lines 356-361: the route of that name, else the catch-all
TriggerTarget(rs, ca, project_name) ==
    LET named == IF project_name # "" THEN RoutesGet(rs, project_name) ELSE None
    IN  IF named # None THEN named ELSE ca

\* the body of the request: what get_json returns, and the members 'prompt'
\* and 'project' of the object ("" where the member is missing or empty)
TriggerBodies ==
    {[data |-> "null", prompt |-> "", project |-> ""]}
    \cup {[data |-> "object", prompt |-> pr, project |-> pj] :
            pr \in {"", "do it"}, pj \in {"", "A", "AB"}}

\* lines 344-380
trigger_claude_manual(rs, ca, b, o) ==
    LET base == [op |-> "trigger", data |-> b.data, prompt |-> b.prompt,
                 project |-> b.project, gets |-> <<>>]
        target == TriggerTarget(rs, ca, b.project)
        sent == <<[url |-> target.agentapi_url, route |-> target.name,
                   enabled |-> target.enabled, content |-> b.prompt]>>
    IN  IF b.data = "null"
        THEN base @@ [http |-> 500, status |-> "", posts |-> <<>>]
        ELSE IF b.prompt = ""
        THEN base @@ [http |-> 400, status |-> "", posts |-> <<>>]
        ELSE IF target = None
        THEN base @@ [http |-> 400, status |-> "", posts |-> <<>>]
        ELSE IF o.kind = "failure"
        THEN base @@ [http |-> 500, status |-> "", posts |-> sent]
        ELSE base @@ [http |-> 200, posts |-> sent,
                      status |-> IF o.code = 200 THEN "success" ELSE "error"]

\* variant of ATrigger: a project name that no route has is entered in the
\* routes under that name, with the route the request went to
ATriggerCaching ==
    /\ \E b \in TriggerBodies, o \in ApiOutcomes :
          LET c == trigger_claude_manual(routes, catch_all_route, b, o)
          IN  /\ call' = c
              /\ routes' = IF c.posts # <<>> /\ b.project # ""
                              /\ RoutesGet(routes, b.project) = None
                           THEN Append(routes, [catch_all_route EXCEPT !.name = b.project])
                           ELSE routes
    /\ UNCHANGED <<evars, catch_all_route, pvars, tvars, mvars, cvars>>

ATrigger ==
    /\ \E b \in TriggerBodies, o \in ApiOutcomes :
          call' = trigger_claude_manual(routes, catch_all_route, b, o)
    /\ UNCHANGED <<evars, table, pvars, tvars, mvars, cvars>>

(*************************** GET /claude-status ****************************)
\* status_info[key] = entry : a dict, as its entries in insertion order
PutEntry(info, key, entry) ==
    IF \E i \in 1..Len(info) : info[i].key = key
    THEN [i \in 1..Len(info) |-> IF info[i].key = key
                                 THEN [key |-> key, entry |-> entry] ELSE info[i]]
    ELSE Append(info, [key |-> key, entry |-> entry])

\* lines 393-405 and 409-421: the entry made of the answer to one probe
ProbeEntry(route, o) ==
    IF o.kind = "failure"
    THEN [status |-> "offline", namespace |-> route.namespace, response_code |-> 0]
    ELSE [status |-> IF o.code = 200 THEN "online" ELSE "error",
          namespace |-> route.namespace, response_code |-> o.code]

\* lines 388-405, from route i on; os[i] is the answer of route i's endpoint
RECURSIVE ProbeRoutes(_, _, _, _)
ProbeRoutes(rs, os, i, acc) ==
    IF i > Len(rs) THEN acc
    ELSE IF ~rs[i].enabled
    THEN ProbeRoutes(rs, os, i + 1,
            [acc EXCEPT !.info = PutEntry(@, rs[i].name,
                [status |-> "disabled", namespace |-> "", response_code |-> 0])])
    ELSE ProbeRoutes(rs, os, i + 1,
            [info |-> PutEntry(acc.info, rs[i].name, ProbeEntry(rs[i], os[i])),
             gets |-> Append(acc.gets, [url |-> rs[i].agentapi_url, route |-> rs[i].name])])

\* lines 382-423; os[Len(rs) + 1] is the answer of the catch-all's endpoint
claude_status(rs, ca, os) ==
    LET probed == ProbeRoutes(rs, os, 1, [info |-> <<>>, gets |-> <<>>])
    IN  IF ca # None /\ ca.enabled
        THEN [info |-> PutEntry(probed.info, "catch_all", ProbeEntry(ca, os[Len(rs) + 1])),
              gets |-> Append(probed.gets, [url |-> ca.agentapi_url, route |-> ca.name])]
        ELSE probed

AStatus ==
    /\ \E os \in [1..(Len(routes) + 1) -> ProbeOutcomes] :
          LET r == claude_status(routes, catch_all_route, os)
          IN  call' = [op |-> "status", http |-> 200, posts |-> <<>>,
                       gets |-> r.gets, info |-> r.info, answers |-> os]
    /\ UNCHANGED <<evars, table, pvars, tvars, mvars, cvars>>

ApiNext ==
    AEdit \/ AReload \/ AHealth \/ AList \/ AWebhook \/ ATrigger \/ AStatus

ApiSpec == ApiInit /\ [][ApiNext]_vars

(***************************************************************************)
(* Properties of the endpoints (ApiSpec)                                   *)
(***************************************************************************)
\* C15: the routes and the catch-all change only in a reload: a step that
\* serves a webhook (its lookup included), a manual trigger, a status
\* probe, a health check or a route listing leaves them, and so every
\* field of every route, as they were, whatever its input and whatever the
\* endpoints answer.
C15_OnlyReloadMutates ==
    [][(call' # None /\ call'.op # "reload") => UNCHANGED <<routes, catch_all_route>>]_vars

\* a manual trigger whose delivery failed, served after a reload changed
\* the table
C15_Witness ==
    /\ call # None
    /\ call.op = "trigger"
    /\ call.posts # <<>>
    /\ call.http = 500
    /\ source \in ConfigVersions
    /\ [routes |-> routes, catch_all_route |-> catch_all_route]
          = reload_config(source, envUrl)

\* the entries of the report under one key
EntriesOf(info, key) == {i \in 1..Len(info) : info[i].key = key}

\* the routes that are probed, in their order
RECURSIVE EnabledRoutes(_)
EnabledRoutes(rs) ==
    IF rs = <<>> THEN <<>>
    ELSE IF Head(rs).enabled THEN <<Head(rs)>> \o EnabledRoutes(Tail(rs))
    ELSE EnabledRoutes(Tail(rs))

\* C18: whatever subset of the endpoints fails or answers non-200, the
\* status probe answers 200 with one entry per route, telling that route's
\* state, and one more for the enabled catch-all; every enabled route and
\* the enabled catch-all is probed exactly once, no disabled one is.
C18_StatusIsolation ==
    (call # None /\ call.op = "status") =>
        LET usable == catch_all_route # None /\ catch_all_route.enabled
            probes == EnabledRoutes(routes)
                        \o (IF usable THEN <<catch_all_route>> ELSE <<>>)
        IN  /\ call.http = 200
            /\ Len(call.info) = Len(routes) + (IF usable THEN 1 ELSE 0)
            /\ \A i \in 1..Len(routes) :
                  \E n \in EntriesOf(call.info, routes[i].name) :
                      call.info[n].entry.status =
                          (IF ~routes[i].enabled THEN "disabled"
                           ELSE ProbeEntry(routes[i], call.answers[i]).status)
            /\ usable =>
                  \E n \in EntriesOf(call.info, "catch_all") :
                      call.info[n].entry =
                          ProbeEntry(catch_all_route, call.answers[Len(routes) + 1])
            /\ Len(call.gets) = Len(probes)
            /\ \A i \in 1..Len(probes) : call.gets[i].url = probes[i].agentapi_url

\* C19: a manual trigger with a non-empty prompt makes one delivery, of the
\* prompt as given, to the route whose name is the given project name, and
\* to the catch-all when no name is given or no route has it; what the
\* routes hold as project keys and patterns plays no part; with an empty
\* prompt, or with neither such a route nor a catch-all, nothing is
\* delivered.
C19_TriggerByName ==
    (call # None /\ call.op = "trigger") =>
        LET named == {r \in RouteSet(routes) : r.name = call.project}
            expected == IF call.project # "" /\ named # {}
                        THEN CHOOSE r \in named : TRUE
                        ELSE catch_all_route
        IN  IF call.data = "object" /\ call.prompt # "" /\ expected # None
            THEN call.posts = <<[url |-> expected.agentapi_url,
                                 route |-> expected.name,
                                 enabled |-> expected.enabled,
                                 content |-> call.prompt]>>
            ELSE call.posts = <<>>

\* a trigger for a project name that no route has, but that an enabled
\* route lists as a project key, delivered to the catch-all
C19_Witness ==
    /\ call # None
    /\ call.op = "trigger"
    /\ call.project = "AB"
    /\ \E i \in 1..Len(routes) : routes[i].enabled /\ ExactHit(routes[i], kAB)
    /\ catch_all_route # None
    /\ Len(call.posts) = 1
    /\ call.posts[1].url = catch_all_route.agentapi_url
    /\ call.posts[1].content = "do it"

\* C21: across webhook requests, manual triggers and reloads, every POST to
\* an endpoint's /message goes to a route, or a catch-all, whose enabled
\* flag is true.
C21_NoDeliveryToDisabled ==
    call # None => \A i \in 1..Len(call.posts) : call.posts[i].enabled

(***************************************************************************)
(* ComposeSpec: the choice of the template (lines 281-286) and the         *)
(* changelog of the prompt (lines 298, 425-437), applied to every bounded  *)
(* event name and list of changelog items                                  *)
(***************************************************************************)
\* str.lower(), on the letters that occur in the event names
UpperLetters == <<"A", "C", "D", "E", "G", "I", "N", "P", "R", "S", "T", "U">>
LowerLetters == <<"a", "c", "d", "e", "g", "i", "n", "p", "r", "s", "t", "u">>

LowerCase(c) ==
    IF \E i \in 1..Len(UpperLetters) : UpperLetters[i] = c
    THEN LowerLetters[CHOOSE i \in 1..Len(UpperLetters) : UpperLetters[i] = c]
    ELSE c

lower(s) == [i \in 1..Len(s) |-> LowerCase(s[i])]

\* sub in s
Contains(s, sub) ==
    \E i \in 0..(Len(s) - Len(sub)) : SubSeq(s, i + 1, i + Len(sub)) = sub

sUpdated == <<"u", "p", "d", "a", "t", "e", "d">>
sAssigned == <<"a", "s", "s", "i", "g", "n", "e", "d">>

\* lines 283, 285 and 298: the two tests the handler makes on the event name
EventOf(name) ==
    [updated |-> Contains(lower(name), sUpdated),
     assigned |-> Contains(lower(name), sAssigned)]

\* the pieces event names are put together from
EventFragments ==
    {<<"u", "p", "d">>, <<"a", "t", "e", "d">>,
     <<"U", "P", "D", "A", "T", "E", "D">>,
     sAssigned, <<"A", "s", "s", "i", "g", "n", "E", "D">>,
     <<"c", "r", "e", "a", "t", "e", "d">>, <<":">>}

RECURSIVE Concat(_)
Concat(ss) == IF ss = <<>> THEN <<>> ELSE Head(ss) \o Concat(Tail(ss))

EventNames == {Concat(fs) : fs \in SeqsUpTo(EventFragments, MaxFragments)}

\* a member of a changelog item: missing, JSON null, or a string
Absent == [absent |-> TRUE]
Null == [null |-> TRUE]
Text(s) == [text |-> s]

ChangelogItems ==
    [field : {Absent, Null, Text("status")},
     fromString : {Absent, Null, Text("Open")},
     toString : {Absent, Text("Done")}]

\* item.get(key, default) inside an f-string: a null is formatted as 'None'
GetText(v, default) ==
    IF v = Absent THEN default ELSE IF v = Null THEN "None" ELSE v.text

\* lines 432-435; " -> " stands for the arrow of line 435
ChangeLine(item) ==
    "- " \o GetText(item.field, "") \o ": " \o GetText(item.fromString, "None")
         \o " -> " \o GetText(item.toString, "None")

\* '\n'.join(changes)
RECURSIVE JoinLines(_)
JoinLines(lines) ==
    IF lines = <<>> THEN ""
    ELSE IF Len(lines) = 1 THEN lines[1]
    ELSE lines[1] \o "\n" \o JoinLines(Tail(lines))

NoChanges == "No specific changes detected"

\* _extract_changelog, lines 425-437, on the items of the payload's changelog
extract_changelog(items) ==
    LET changes == [i \in 1..Len(items) |-> ChangeLine(items[i])]
    IN  IF changes # <<>> THEN JoinLines(changes) ELSE NoChanges

\* lines 155-174: of the three templates only 'issue_updated' holds {changelog}
TemplateHasChangelog(key) == key = "issue_updated"

\* lines 281-303: the template chosen, ticket_info['changelog'], and the
\* changelog block as it stands in the formatted prompt (None: no block)
Compose(name, items) ==
    LET event == EventOf(name)
        key == template_key(event)
        changelog == IF event.updated THEN extract_changelog(items) ELSE ""
    IN  [template |-> key,
         changelog |-> changelog,
         block |-> IF TemplateHasChangelog(key) THEN Text(changelog) ELSE None]

\* the item lists are varied with two event names, the event names with no
\* items
ItemEvents == {sUpdated, sAssigned}

Pending == [pending |-> TRUE]

ComposeInit ==
    /\ cEvent \in EventNames \cup ItemEvents
    /\ cItems \in SeqsUpTo(ChangelogItems, MaxItems)
    /\ (cItems # <<>> => cEvent \in ItemEvents)
    /\ cOut = Pending
    /\ source = Source("absent", <<>>, None)
    /\ envUrl = "unset"
    /\ possessive = TRUE
    /\ LET t == load_config(<<>>, None, source, envUrl)
       IN  routes = t.routes /\ catch_all_route = t.catch_all_route
    /\ tKey = None
    /\ tResult = None
    /\ tListing = None
    /\ ThreadsIdle
    /\ MatchIdle
    /\ ApiIdle

ApplyCompose ==
    /\ cOut = Pending
    /\ cOut' = Compose(cEvent, cItems)
    /\ UNCHANGED <<cEvent, cItems, evars, table, pvars, tvars, mvars, avars>>

ComposeNext == ApplyCompose

ComposeSpec == ComposeInit /\ [][ComposeNext]_vars

Composed == cOut \notin {Pending, None}

\* two letters that differ at most in their case
SameLetter(a, b) == LowerCase(a) = LowerCase(b)

\* word stands in name at offset i, without regard to case
OccursAt(name, word, i) ==
    /\ i + Len(word) <= Len(name)
    /\ \A j \in 1..Len(word) : SameLetter(name[i + j], word[j])

Occurs(name, word) == \E i \in 0..Len(name) : OccursAt(name, word, i)

\* C17: every event name gets exactly one classification: Updated if it
\* holds "updated" in any case, even when it also holds "assigned"; else
\* Assigned if it holds "assigned"; else Created.  The changelog block
\* stands in the prompt exactly for Updated events.
C17_ClassifyOnce ==
    Composed =>
        /\ cOut.template =
              (IF Occurs(cEvent, sUpdated) THEN "issue_updated"
               ELSE IF Occurs(cEvent, sAssigned) THEN "issue_assigned"
               ELSE "issue_created")
        /\ (cOut.block # None) <=> Occurs(cEvent, sUpdated)

\* an event name that holds "assigned" before "updated", classified Updated
C17_Witness ==
    /\ Composed
    /\ \E i \in 0..Len(cEvent), j \in 0..Len(cEvent) :
          /\ i < j
          /\ OccursAt(cEvent, sAssigned, i)
          /\ OccursAt(cEvent, sUpdated, j)
    /\ cOut.template = "issue_updated"
    /\ cOut.block = Text(NoChanges)

\* the items that have a field name
RECURSIVE WithField(_)
WithField(items) ==
    IF items = <<>> THEN <<>>
    ELSE IF Head(items).field \in {Absent, Null} THEN WithField(Tail(items))
    ELSE <<Head(items)>> \o WithField(Tail(items))

\* C20: the changelog of an Updated event is the placeholder for an empty
\* item list, and otherwise one line "- <field>: <from> -> <to>" for each
\* item that has a field name, in the order of the items, joined by
\* newlines, a missing from or to value written "None".
C20_ChangelogLines ==
    (Composed /\ Occurs(cEvent, sUpdated)) =>
        cOut.changelog =
            (IF cItems = <<>> THEN NoChanges
             ELSE JoinLines([i \in 1..Len(WithField(cItems)) |->
                                ChangeLine(WithField(cItems)[i])]))

(***************************************************************************)
(* MatchSpec: _match_pattern applied to every bounded pattern and key      *)
(***************************************************************************)
MatchInit ==
    /\ mPattern \in SeqsUpTo(PatternChars, MaxPatLen)
    /\ mKey \in SeqsUpTo(KeyChars, MaxKeyLen)
    /\ mResult = "pending"
    /\ possessive \in BOOLEAN
    /\ source = Source("absent", <<>>, None)
    /\ envUrl = "unset"
    /\ LET t == load_config(<<>>, None, source, envUrl)
       IN  routes = t.routes /\ catch_all_route = t.catch_all_route
    /\ tKey = None
    /\ tResult = None
    /\ tListing = None
    /\ ThreadsIdle
    /\ ApiIdle
    /\ ComposeIdle

\* router._match_pattern(mPattern, mKey)
ApplyMatch ==
    /\ mResult = "pending"
    /\ mResult' = match_pattern(mPattern, mKey, possessive)
    /\ UNCHANGED <<mPattern, mKey, evars, table, pvars, tvars, avars, cvars>>

MatchNext == ApplyMatch

MatchSpec == MatchInit /\ [][MatchNext]_vars

\* C3: _match_pattern answers as the glob matcher does, for every pattern
\* and key over the alphabet: it matches exactly when the glob matches, and
\* it never fails.
C3_MatchEqualsGlob ==
    mResult \notin {"pending", "idle"} =>
        /\ mResult # "raise"
        /\ (mResult = "match") <=> GlobMatch(mPattern, mKey)

====
